---- MODULE Spec2Model ----
(***************************************************************************)
(* A model of the hyperbolic point-and-click repository:                   *)
(*   src/hyperbolic_functions.js  the Poincare-disk geometry kernel and    *)
(*                                the d3Hyperbolic renderer                *)
(*   src/main.js                  the point-and-click page                 *)
(*                                                                         *)
(* Numbers.  A JavaScript number is modelled as an exact rational <<n, d>> *)
(* in lowest terms with d > 0, extended with the three non-finite values   *)
(* IEEE arithmetic produces: NaN = <<0,0>>, +Infinity = <<1,0>> and        *)
(* -Infinity = <<-1,0>>.  Division by zero, Infinity - Infinity and        *)
(* 0 * Infinity follow the IEEE rules, so that a construction that divides *)
(* by a zero determinant yields NaN or Infinity here as it does in the     *)
(* program.  Rounding of finite results is not modelled (finite results    *)
(* are exact), and zero carries no sign (x / 0 has the sign of x).         *)
(***************************************************************************)
EXTENDS Integers, Sequences, FiniteSets, TLC

----------------------------------------------------------------------------
(* Extended rational arithmetic *)

NaN == <<0, 0>>
PInf == <<1, 0>>
NInf == <<-1, 0>>

Abs(i) == IF i < 0 THEN -i ELSE i
Sgn(i) == IF i < 0 THEN -1 ELSE IF i = 0 THEN 0 ELSE 1

RECURSIVE GCD(_, _)
GCD(a, b) == IF b = 0 THEN a ELSE GCD(b, a % b)

\* n/d in lowest terms; d = 0 gives NaN (n = 0) or a signed infinity.
Norm(n, d) ==
  IF d = 0 THEN <<Sgn(n), 0>>
  ELSE LET g == GCD(Abs(n), Abs(d))
       IN  <<(Sgn(d) * n) \div g, Abs(d) \div g>>

R(i) == <<i, 1>>
Q(n, d) == Norm(n, d)

IsNaN(a) == a = NaN
IsInf(a) == a[2] = 0 /\ a[1] # 0
IsFinite(a) == a[2] # 0

RNeg(a) == <<-a[1], a[2]>>

RAdd(a, b) ==
  IF IsNaN(a) \/ IsNaN(b) THEN NaN
  ELSE IF IsInf(a) /\ IsInf(b) THEN (IF a = b THEN a ELSE NaN)
  ELSE IF IsInf(a) THEN a
  ELSE IF IsInf(b) THEN b
  ELSE LET g == GCD(a[2], b[2])     \* over the least common denominator
       IN  Norm(a[1] * (b[2] \div g) + b[1] * (a[2] \div g),
                (a[2] \div g) * b[2])

RSub(a, b) == RAdd(a, RNeg(b))

RMul(a, b) ==
  IF IsNaN(a) \/ IsNaN(b) THEN NaN
  ELSE IF IsInf(a) \/ IsInf(b)
       THEN <<Sgn(a[1]) * Sgn(b[1]), 0>>   \* 0 * Infinity = NaN = <<0,0>>
  ELSE LET g == GCD(Abs(a[1]), b[2])    \* cancel before multiplying
           h == GCD(Abs(b[1]), a[2])
       IN  IF a[1] = 0 \/ b[1] = 0 THEN R(0)
           ELSE Norm((a[1] \div g) * (b[1] \div h),
                     (a[2] \div h) * (b[2] \div g))

RDiv(a, b) ==
  IF IsNaN(a) \/ IsNaN(b) THEN NaN
  ELSE IF IsInf(a) THEN (IF IsInf(b) THEN NaN
                         ELSE <<a[1] * (IF b[1] < 0 THEN -1 ELSE 1), 0>>)
  ELSE IF IsInf(b) THEN R(0)
  ELSE IF b[1] = 0 THEN <<Sgn(a[1]), 0>>    \* 0/0 = NaN, x/0 = +-Infinity
  ELSE RMul(a, Norm(b[2], b[1]))

\* Comparisons; every comparison with NaN is false, as in IEEE arithmetic.
RLt(a, b) ==
  /\ ~IsNaN(a) /\ ~IsNaN(b)
  /\ IF IsInf(a) \/ IsInf(b)
     THEN (IF IsInf(a) /\ IsInf(b) THEN a[1] < b[1]
           ELSE IF IsInf(a) THEN a[1] < 0 ELSE b[1] > 0)
     ELSE LET g == GCD(a[2], b[2])
          IN  a[1] * (b[2] \div g) < b[1] * (a[2] \div g)
RGt(a, b) == RLt(b, a)
RLe(a, b) == ~IsNaN(a) /\ ~IsNaN(b) /\ ~RLt(b, a)
RGe(a, b) == RLe(b, a)

\* Math.abs
RAbs(a) == <<Abs(a[1]), a[2]>>

\* Math.min: NaN if either argument is NaN.
RMin(a, b) == IF IsNaN(a) \/ IsNaN(b) THEN NaN ELSE IF RLt(b, a) THEN b ELSE a
RMax(a, b) == IF IsNaN(a) \/ IsNaN(b) THEN NaN ELSE IF RLt(a, b) THEN b ELSE a

RSq(a) == RMul(a, a)

Pt(x, y) == [x |-> x, y |-> y]
PtFinite(p) == IsFinite(p.x) /\ IsFinite(p.y)

\* Math.sqrt.  A rational root is returned exactly.  The inputs of the model
\* are drawn so that every root the program takes of them is rational
\* (HasRoot); any other root is rounded down to a multiple of 1/RootScale.
RootScale == 16
RECURSIVE RootBetween(_, _, _)
\* The largest k in lo..hi with k*k <= n.
RootBetween(n, lo, hi) ==
  IF lo >= hi THEN lo
  ELSE LET mid == (lo + hi + 1) \div 2
       IN  IF mid * mid <= n THEN RootBetween(n, mid, hi)
           ELSE RootBetween(n, lo, mid - 1)
\* floor(sqrt(n)); 46340 is the largest root of a 32-bit integer.
ISqrt(n) == RootBetween(n, 0, IF n < 46340 THEN n ELSE 46340)
IsSquare(n) == n >= 0 /\ ISqrt(n) * ISqrt(n) = n
HasRoot(a) == a[2] = 0 \/ a[1] < 0 \/ (IsSquare(a[1]) /\ IsSquare(a[2]))
RSqrt(a) ==
  IF IsNaN(a) \/ a = NInf THEN NaN
  ELSE IF a = PInf THEN PInf
  ELSE IF a[1] < 0 THEN NaN
  ELSE IF HasRoot(a) THEN <<ISqrt(a[1]), ISqrt(a[2])>>
  ELSE Norm(ISqrt((a[1] * RootScale * RootScale) \div a[2]), RootScale)

\* Math.hypot(x, y)
Hypot2(x, y) == RAdd(RSq(x), RSq(y))
Hypot(x, y) == RSqrt(Hypot2(x, y))

----------------------------------------------------------------------------
(* Angles.  An angle returned by Math.atan2(y, x) is held as the direction  *)
(* <<x, y>> it points in (not normalised); atan2(0, 0) = 0 is the direction *)
(* <<1, 0>>.  Two angles are equal iff their directions are positive        *)
(* multiples of each other.  cos and sin divide by the direction's length.  *)

Atan2(y, x) ==
  IF IsNaN(x) \/ IsNaN(y) THEN Pt(NaN, NaN)
  ELSE IF IsInf(x) \/ IsInf(y)
       THEN Pt(IF IsInf(x) THEN R(x[1]) ELSE R(0),
               IF IsInf(y) THEN R(y[1]) ELSE R(0))
  ELSE IF x = R(0) /\ y = R(0) THEN Pt(R(1), R(0))
  ELSE Pt(x, y)
Cos(theta) == RDiv(theta.x, Hypot(theta.x, theta.y))
Sin(theta) == RDiv(theta.y, Hypot(theta.x, theta.y))
SameAngle(s, t) ==
  /\ PtFinite(s) /\ PtFinite(t)
  /\ RSub(RMul(s.x, t.y), RMul(s.y, t.x)) = R(0)
  /\ RGt(RAdd(RMul(s.x, t.x), RMul(s.y, t.y)), R(0))

\* The order of angles as numbers in (-pi, pi]: negative angles (y < 0), then
\* 0, then positive angles (y > 0), then pi; within the negative and within
\* the positive angles the larger one is counterclockwise of the smaller.
AngleRank(s) ==
  IF RLt(s.y, R(0)) THEN 0
  ELSE IF s.y = R(0) /\ RGt(s.x, R(0)) THEN 1
  ELSE IF RGt(s.y, R(0)) THEN 2
  ELSE 3
AngleLt(s, t) ==
  /\ PtFinite(s) /\ PtFinite(t)
  /\ \/ AngleRank(s) < AngleRank(t)
     \/ /\ AngleRank(s) = AngleRank(t)
        /\ RGt(RSub(RMul(s.x, t.y), RMul(s.y, t.x)), R(0))
\* Math.min and Math.max of two angles (NaN if either is NaN)
AngleMin(s, t) ==
  IF ~PtFinite(s) \/ ~PtFinite(t) THEN Pt(NaN, NaN)
  ELSE IF AngleLt(t, s) THEN t ELSE s
AngleMax(s, t) ==
  IF ~PtFinite(s) \/ ~PtFinite(t) THEN Pt(NaN, NaN)
  ELSE IF AngleLt(s, t) THEN t ELSE s
\* hi - lo >= Math.PI for lo <= hi: lo is at most 0 and hi is not below
\* lo + pi, the angle of the opposite direction.  The difference is compared
\* exactly; rounding of a difference of exactly pi is not modelled.
SpanAtLeastPi(lo, hi) ==
  /\ PtFinite(lo) /\ PtFinite(hi)
  /\ AngleRank(lo) <= 1
  /\ ~AngleLt(hi, Pt(RNeg(lo.x), RNeg(lo.y)))

----------------------------------------------------------------------------
(* Hyperbolic lengths.  A hyperbolic length h (the value of acosh, of       *)
(* 2*atanh, and the sums and differences of such values) is held as         *)
(* tanh(h/2), a rational in [-1, 1]: 1 stands for h = Infinity, -1 for      *)
(* h = -Infinity.  In that form h1 + h2 is (a + b)/(1 + a*b) (the addition  *)
(* formula of tanh), tanh(h/2) is the held value itself, 2*atanh(r) is r    *)
(* for |r| <= 1 and NaN beyond, and acosh(c) is sqrt((c-1)/(c+1)) for       *)
(* c >= 1 and NaN below.                                                    *)

\* Math.acosh(c)
Acosh(c) ==
  IF IsNaN(c) \/ RLt(c, R(1)) THEN NaN
  ELSE IF c = PInf THEN R(1)
  ELSE RSqrt(RDiv(RSub(c, R(1)), RAdd(c, R(1))))
\* Math.tanh(h / 2): the held value, as a number
TanhHalf(h) == h
\* 2 * Math.atanh(r)
TwoAtanh(r) == IF IsNaN(r) \/ RGt(RAbs(r), R(1)) THEN NaN ELSE r
\* h1 - h2 and h1 + h2 on hyperbolic lengths
HSub(a, b) == RDiv(RSub(a, b), RSub(R(1), RMul(a, b)))
HAdd(a, b) == RDiv(RAdd(a, b), RAdd(R(1), RMul(a, b)))

\* The hyperbolic radii the program uses, as tanh(h/2) to two decimals:
\* 0.2 (tanh(0.1) = 0.0997) and 0.05 (tanh(0.025) = 0.0250).
HypRadius02 == Q(1, 10)
HypRadius005 == Q(1, 40)

----------------------------------------------------------------------------
(* The geometry kernel, src/hyperbolic_functions.js *)

canvas_to_disk(p, poindisk) ==
  LET rect == poindisk.boundbox
      x == RMul(RSub(RDiv(RSub(p.x, rect.left), RSub(rect.right, rect.left)),
                     Q(1, 2)), R(2))
      y == RMul(RSub(RDiv(RSub(p.y, rect.top), RSub(rect.bottom, rect.top)),
                     Q(1, 2)), R(-2))
  IN  Pt(x, y)

disk_to_canvas(p, poindisk) ==
  LET x == RAdd(RMul(p.x, poindisk.r), poindisk.cx)
      y == RAdd(RMul(RNeg(p.y), poindisk.r), poindisk.cy)
  IN  Pt(x, y)

\* euclid_dist(p, q) squared: the callers modelled here use dist*dist, or
\* compare distances, and the root itself is irrational in general.
euclid_dist2(p, q) == RAdd(RSq(RSub(p.x, q.x)), RSq(RSub(p.y, q.y)))

r_poincare_to_euclid(r) == TanhHalf(r)

hyper_radius_from_euclidean(r) == TwoAtanh(r)

euclid_line(p, q) ==
  LET line == [a |-> RSub(p.y, q.y),
               b |-> RSub(q.x, p.x),
               c |-> RSub(RMul(p.x, q.y), RMul(q.x, p.y))]
  IN  IF RGt(RAbs(line.b), Q(1, 1000))
      THEN [a |-> RDiv(line.a, line.b), b |-> RDiv(line.b, line.b),
            c |-> RDiv(line.c, line.b)]
      ELSE line

\* A sign slip in the constant term.
get_perpendicular_line_sign(pq, v) ==
  [a |-> pq.b, b |-> RNeg(pq.a),
   c |-> RSub(RMul(RNeg(v.x), pq.b), RMul(v.y, pq.a))]

get_perpendicular_line(pq, v) ==
  [a |-> pq.b, b |-> RNeg(pq.a),
   c |-> RAdd(RMul(RNeg(v.x), pq.b), RMul(v.y, pq.a))]

find_midpoint(p, q) ==
  Pt(RDiv(RAdd(p.x, q.x), R(2)), RDiv(RAdd(p.y, q.y), R(2)))

find_intersection(pq, xy) ==
  LET det == RSub(RMul(pq.b, xy.a), RMul(pq.a, xy.b))
  IN  Pt(RDiv(RSub(RMul(pq.c, xy.b), RMul(pq.b, xy.c)), det),
         RDiv(RSub(RMul(pq.a, xy.c), RMul(pq.c, xy.a)), det))

\* The radius not squared.
circle_inversion_r(p, circle) ==
  LET cx == circle.cx
      cy == circle.cy
      dist2 == euclid_dist2(p, Pt(cx, cy))
      new_c == RDiv(circle.r, dist2)
      u == Pt(RSub(p.x, cx), RSub(p.y, cy))
  IN  Pt(RAdd(RMul(new_c, u.x), cx), RAdd(RMul(new_c, u.y), cy))

circle_inversion(p, circle) ==
  LET cx == circle.cx
      cy == circle.cy
      dist2 == euclid_dist2(p, Pt(cx, cy))       \* dist*dist
      new_c == RDiv(RMul(circle.r, circle.r), dist2)
      u == Pt(RSub(p.x, cx), RSub(p.y, cy))
  IN  Pt(RAdd(RMul(new_c, u.x), cx), RAdd(RMul(new_c, u.y), cy))

\* The second midpoint taken to the first point's inverse.
poincare_geodesic_pp(p0, q0, poindisk) ==
  LET left == poindisk.boundbox.left
      top == poindisk.boundbox.top
      p == Pt(RSub(p0.x, left), RSub(p0.y, top))
      q == Pt(RSub(q0.x, left), RSub(q0.y, top))
      pp == circle_inversion(p, poindisk)
      qq == circle_inversion(q, poindisk)
      M == find_midpoint(p, pp)
      N == find_midpoint(q, pp)
      m == get_perpendicular_line(euclid_line(p, pp), M)
      n == get_perpendicular_line(euclid_line(q, qq), N)
      C == find_intersection(m, n)
  IN  [p1 |-> p, p2 |-> q, c |-> C,
       startAngle |-> Atan2(RSub(q.y, C.y), RSub(q.x, C.x)),
       endAngle |-> Atan2(RSub(p.y, C.y), RSub(p.x, C.x)),
       rSq |-> euclid_dist2(p, C)]

\* The arc's radius r = euclid_dist(p, C) is held squared, in rSq.
poincare_geodesic(p0, q0, poindisk) ==
  LET left == poindisk.boundbox.left
      top == poindisk.boundbox.top
      p == Pt(RSub(p0.x, left), RSub(p0.y, top))
      q == Pt(RSub(q0.x, left), RSub(q0.y, top))
      pp == circle_inversion(p, poindisk)
      qq == circle_inversion(q, poindisk)
      M == find_midpoint(p, pp)
      N == find_midpoint(q, qq)
      m == get_perpendicular_line(euclid_line(p, pp), M)
      n == get_perpendicular_line(euclid_line(q, qq), N)
      C == find_intersection(m, n)
  IN  [p1 |-> p, p2 |-> q, c |-> C,
       startAngle |-> Atan2(RSub(q.y, C.y), RSub(q.x, C.x)),
       endAngle |-> Atan2(RSub(p.y, C.y), RSub(p.x, C.x)),
       rSq |-> euclid_dist2(p, C)]

polar_to_cart(r, theta, center) ==
  Pt(RAdd(center.x, RMul(r, Cos(theta))),
     RAdd(center.y, RMul(r, Sin(theta))))

\* The swap for spans of pi and more left out.
arc_path_noswap(arc) ==
  LET radius == RSqrt(arc.rSq)
      startAngle == AngleMin(arc.startAngle, arc.endAngle)
      endAngle == AngleMax(arc.startAngle, arc.endAngle)
  IN  [start |-> polar_to_cart(radius, endAngle, arc.c),
       rx |-> radius, ry |-> radius, rotation |-> 0, largeArc |-> 0,
       sweep |-> 0, end |-> polar_to_cart(radius, startAngle, arc.c)]

\* The path "M start A rx ry rotation large-arc sweep end", by its numbers.
\* The arc's r is the root of the squared radius the arc is held with.
arc_path(arc) ==
  LET radius == RSqrt(arc.rSq)
      startAngle == AngleMin(arc.startAngle, arc.endAngle)
      endAngle == AngleMax(arc.startAngle, arc.endAngle)
      swap == SpanAtLeastPi(startAngle, endAngle)
      start == IF swap THEN polar_to_cart(radius, startAngle, arc.c)
               ELSE polar_to_cart(radius, endAngle, arc.c)
      end == IF swap THEN polar_to_cart(radius, endAngle, arc.c)
             ELSE polar_to_cart(radius, startAngle, arc.c)
  IN  [start |-> start, rx |-> radius, ry |-> radius, rotation |-> 0,
       largeArc |-> 0, sweep |-> 0, end |-> end]

poincare_circle(center, r, poindisk) ==
  LET e_center_radius == Hypot(center.x, center.y)
      cr == hyper_radius_from_euclidean(e_center_radius)
      dh1 == HSub(cr, r)
      dh2 == HAdd(cr, r)
      de1 == r_poincare_to_euclid(dh1)
      de2 == r_poincare_to_euclid(dh2)
      er == RDiv(RSub(de2, de1), R(2))
      ecr == RDiv(RAdd(de2, de1), R(2))
      c_theta == Atan2(center.y, center.x)
      x == RMul(ecr, Cos(c_theta))
      y == RMul(ecr, Sin(c_theta))
      canvas_coord == disk_to_canvas(Pt(x, y), poindisk)
  IN  [cx |-> canvas_coord.x, cy |-> canvas_coord.y,
       r |-> RMul(er, poindisk.r), px |-> x, py |-> y,
       center |-> Pt(x, y), hcenter |-> disk_to_canvas(center, poindisk)]

\* The x offset taken from centerY.
to_poincare_polar_xy(ePosition, centerX, centerY) ==
  LET x == RMul(Q(1, 200), RSub(ePosition.x, centerY))
      y == RMul(Q(1, 200), RSub(ePosition.y, centerY))
      circleR == Hypot(x, y)
      theta == Atan2(x, y)
      hR == Acosh(RAdd(RMul(RMul(Q(1, 2), circleR), circleR), R(1)))
      poincareR == TanhHalf(hR)
  IN  [poincareR |-> poincareR, theta |-> theta]

\* to_poincare, lines 40-49: the Poincare radius of the projected point
\* and the angle it is placed at.
to_poincare_polar(ePosition, centerX, centerY) ==
  LET x == RMul(Q(1, 200), RSub(ePosition.x, centerX))
      y == RMul(Q(1, 200), RSub(ePosition.y, centerY))
      circleR == Hypot(x, y)
      theta == Atan2(x, y)
      hR == Acosh(RAdd(RMul(RMul(Q(1, 2), circleR), circleR), R(1)))
      poincareR == TanhHalf(hR)
  IN  [poincareR |-> poincareR, theta |-> theta]

\* to_poincare, lines 52-53 and 60: the projected center.
to_poincare_center(ePosition, centerX, centerY, poindisk) ==
  LET pol == to_poincare_polar(ePosition, centerX, centerY)
      poinx == RAdd(poindisk.r,
                    RMul(poindisk.r, RMul(pol.poincareR, Sin(pol.theta))))
      poiny == RAdd(poindisk.r,
                    RMul(poindisk.r, RMul(pol.poincareR, Cos(pol.theta))))
  IN  Pt(poinx, poiny)

\* The projected center also stored over the layout coordinates.
to_poincare_xy(ePosition, centerX, centerY, poindisk) ==
  LET center == to_poincare_center(ePosition, centerX, centerY, poindisk)
  IN  [ePosition EXCEPT
         !.x = center.x,
         !.y = center.y,
         !.center = center,
         !.circle = poincare_circle(canvas_to_disk(center, poindisk),
                                    HypRadius02, poindisk)]

\* to_poincare with inPlace = true (every call of the program): the node
\* after the call.
to_poincare(ePosition, centerX, centerY, poindisk) ==
  LET center == to_poincare_center(ePosition, centerX, centerY, poindisk)
  IN  [ePosition EXCEPT
         !.center = center,
         !.circle = poincare_circle(canvas_to_disk(center, poindisk),
                                    HypRadius02, poindisk)]

\* The value to_poincare returns.
to_poincare_result(ePosition, centerX, centerY, poindisk) ==
  LET center == to_poincare_center(ePosition, centerX, centerY, poindisk)
  IN  [center |-> center,
       circle |-> poincare_circle(canvas_to_disk(center, poindisk),
                                  HypRadius005, poindisk)]
----------------------------------------------------------------------------
(* The disk descriptors the program builds *)

\* The value a field has before the program assigns it.
Null == [null |-> TRUE]

\* getBoundingClientRect() of an element at (left, top) of the given size.
ClientRect(left, top, width, height) ==
  [left |-> R(left), top |-> R(top), right |-> R(left + width),
   bottom |-> R(top + height), width |-> R(width), height |-> R(height)]

\* d3Hyperbolic.render, projection 'hyperbolic': the disk of a canvas.
render_poindisk(canvasWidth, canvasHeight) ==
  LET boundbox == [left |-> R(0), right |-> R(canvasWidth),
                   bottom |-> R(canvasHeight), top |-> R(0)]
      cx == RDiv(RSub(boundbox.right, boundbox.left), R(2))
      cy == RDiv(RSub(boundbox.bottom, boundbox.top), R(2))
      r == RMin(cx, cy)
  IN  [boundbox |-> boundbox, cx |-> cx, cy |-> cy, r |-> r,
       center |-> Pt(cx, cy)]

\* main.js: the disk of the page's svg element, whose client rectangle is rect.
page_poindisk(rect) ==
  LET width == rect.width
      cx == RDiv(RSub(rect.right, rect.left), R(2))
      cy == RDiv(RSub(rect.bottom, rect.top), R(2))
  IN  [r |-> RDiv(width, R(2)), boundbox |-> rect, cx |-> cx, cy |-> cy,
       center |-> Pt(cx, cy)]

\* A pointer position in the frame of the svg element.
InSvg(e, d) == Pt(RSub(e.x, d.boundbox.left), RSub(e.y, d.boundbox.top))
BoxWidth(d) == RSub(d.boundbox.right, d.boundbox.left)
BoxHeight(d) == RSub(d.boundbox.bottom, d.boundbox.top)

----------------------------------------------------------------------------
(* State *)

VARIABLES
  kin,            \* kernel calls: the function called and its arguments
  kout,           \* kernel calls: the value returned (Null before the call)
  selectedElement, \* d3Hyperbolic: clientWidth and clientHeight of the svg
  graph,          \* d3Hyperbolic: this.graph, nodes and edges
  renderDisk,     \* d3Hyperbolic.render: its poindisk (Null before render)
  renderCenter,   \* d3Hyperbolic.render: centerX, centerY of start_drawing
  poindisk,       \* main.js: the page's disk
  nodes,          \* main.js: the circles drawn
  vertices,       \* main.js: the pending first endpoint of a line
  lines,          \* main.js: the geodesics drawn
  can_draw_line,  \* main.js
  draw_select,    \* main.js: value of the 'draw-select' element
  radius          \* main.js: get_radius(), from the 'radius' slider

kernelVars == <<kin, kout>>
renderVars == <<selectedElement, graph, renderDisk, renderCenter>>
pageVars == <<poindisk, nodes, vertices, lines, can_draw_line, draw_select,
              radius>>
vars == <<kernelVars, renderVars, pageVars>>

\* The variables of the parts of the program a specification leaves out.
NoKernel == kin = Null /\ kout = Null
NoRender ==
  /\ selectedElement = Null /\ graph = Null
  /\ renderDisk = Null /\ renderCenter = Null
NoPage ==
  /\ poindisk = Null /\ nodes = <<>> /\ vertices = <<>> /\ lines = <<>>
  /\ can_draw_line = FALSE /\ draw_select = Null /\ radius = Null

----------------------------------------------------------------------------
(* Calls of the kernel's pure functions on bounded inputs *)

MaxCoord == 5
\* Left-top corners of the page's bounding rectangle.
KCorners == {<<0, 0>>, <<1, 0>>}
KSizes == {4, 6}
Coords == 0..MaxCoord
KPoints == {Pt(R(x), R(y)) : x \in Coords, y \in Coords}
KDisks ==
  {render_poindisk(w, h) : w \in KSizes, h \in KSizes}
  \cup {page_poindisk(ClientRect(o[1], o[2], w, h)) :
          o \in KCorners, w \in KSizes, h \in KSizes}

\* Layout coordinates: offsets whose projections have rational roots are kept.
LayoutCoords == {-300, -240, -180, -90, -72, -54, 0, 54, 72, 90, 180, 240, 300}
RefCenters == {Pt(R(0), R(0)), Pt(R(60), R(-30))}
RenderDisks == {render_poindisk(w, h) : w \in KSizes, h \in KSizes}

\* A graph node as the caller supplies it: layout coordinates, nothing derived.
NewNode(id, x, y) ==
  [id |-> id, x |-> x, y |-> y, center |-> Null, circle |-> Null, tmp |-> Null]

\* Every root to_poincare takes for this node is rational: those of
\* Math.hypot(x, y), of acosh, and of the hypot in poincare_circle.
ProjectsExactly(node, centerX, centerY, disk) ==
  LET x == RMul(Q(1, 200), RSub(node.x, centerX))
      y == RMul(Q(1, 200), RSub(node.y, centerY))
      R2 == Hypot2(x, y)
  IN  /\ HasRoot(R2)
      /\ HasRoot(RDiv(R2, RAdd(R2, R(4))))
      /\ LET pR == RSqrt(RDiv(R2, RAdd(R2, R(4))))
             cR == RSqrt(R2)
             sn == IF cR = R(0) THEN R(0) ELSE RDiv(x, cR)
             cs == IF cR = R(0) THEN R(1) ELSE RDiv(y, cR)
             c == Pt(RAdd(disk.r, RMul(disk.r, RMul(pR, sn))),
                     RAdd(disk.r, RMul(disk.r, RMul(pR, cs))))
             dc == canvas_to_disk(c, disk)
         IN  HasRoot(Hypot2(dc.x, dc.y))

\* Arcs handed to arc_path: angles of directions with rational cosine and
\* sine, as Math.atan2 returns them, around a center, with a radius.
KDirections ==
  {<<1, 0>>, <<-1, 0>>, <<0, 1>>, <<0, -1>>, <<3, 4>>, <<-3, 4>>, <<3, -4>>,
   <<-3, -4>>, <<4, 3>>, <<-4, 3>>, <<4, -3>>, <<-4, -3>>}
KAngles == {Atan2(R(d[2]), R(d[1])) : d \in KDirections}
KArcCenters == {Pt(R(0), R(0)), Pt(R(2), R(3))}
KArcRadii == {R(1), Q(5, 2)}

InitKernel ==
  /\ NoRender /\ NoPage
  /\ kout = Null
  /\ \/ \E p \in KPoints, d \in KDisks :
          kin = [fn |-> "round_trip", p |-> p, disk |-> d]
     \/ \E p \in KPoints, d \in KDisks :
          kin = [fn |-> "circle_inversion", p |-> p, disk |-> d]
     \/ \E p \in KPoints, q \in KPoints, d \in KDisks :
          kin = [fn |-> "poincare_geodesic", p |-> p, q |-> q, disk |-> d]
     \/ \E p \in KPoints, q \in KPoints :
          kin = [fn |-> "euclid_line", p |-> p, q |-> q]
     \/ \E s \in KAngles, t \in KAngles, c \in KArcCenters, r \in KArcRadii :
          kin = [fn |-> "arc_path",
                 arc |-> [c |-> c, startAngle |-> s, endAngle |-> t,
                          rSq |-> RSq(r)]]
     \/ \E dx \in LayoutCoords, dy \in LayoutCoords, c \in RefCenters,
           d \in RenderDisks :
          LET node == NewNode(0, RAdd(c.x, R(dx)), RAdd(c.y, R(dy)))
          IN  /\ ProjectsExactly(node, c.x, c.y, d)
              /\ kin = [fn |-> "to_poincare", ePosition |-> node,
                        centerX |-> c.x, centerY |-> c.y, disk |-> d]

\* disk_to_canvas(canvas_to_disk(p, disk), disk)
CallRoundTrip ==
  /\ kin.fn = "round_trip" /\ kout = Null
  /\ kout' = disk_to_canvas(canvas_to_disk(kin.p, kin.disk), kin.disk)
  /\ UNCHANGED <<kin, renderVars, pageVars>>

\* circle_inversion(p, disk), and circle_inversion of the result
CallCircleInversion ==
  /\ kin.fn = "circle_inversion" /\ kout = Null
  /\ LET once == circle_inversion(kin.p, kin.disk)
     IN  kout' = [once |-> once, twice |-> circle_inversion(once, kin.disk)]
  /\ UNCHANGED <<kin, renderVars, pageVars>>

CallPoincareGeodesic ==
  /\ kin.fn = "poincare_geodesic" /\ kout = Null
  /\ kout' = poincare_geodesic(kin.p, kin.q, kin.disk)
  /\ UNCHANGED <<kin, renderVars, pageVars>>

CallEuclidLine ==
  /\ kin.fn = "euclid_line" /\ kout = Null
  /\ kout' = euclid_line(kin.p, kin.q)
  /\ UNCHANGED <<kin, renderVars, pageVars>>

CallArcPath ==
  /\ kin.fn = "arc_path" /\ kout = Null
  /\ kout' = arc_path(kin.arc)
  /\ UNCHANGED <<kin, renderVars, pageVars>>

\* to_poincare(ePosition, centerX, centerY, disk, true): the node after the
\* call, the value returned, and the local poincareR.
CallToPoincare ==
  /\ kin.fn = "to_poincare" /\ kout = Null
  /\ kout' = [node |-> to_poincare(kin.ePosition, kin.centerX, kin.centerY,
                                   kin.disk),
              result |-> to_poincare_result(kin.ePosition, kin.centerX,
                                            kin.centerY, kin.disk),
              poincareR |-> to_poincare_polar(kin.ePosition, kin.centerX,
                                              kin.centerY).poincareR]
  /\ UNCHANGED <<kin, renderVars, pageVars>>

NextKernel ==
  \/ CallToPoincare
  \/ CallRoundTrip
  \/ CallCircleInversion
  \/ CallPoincareGeodesic
  \/ CallEuclidLine
  \/ CallArcPath

SpecKernel == InitKernel /\ [][NextKernel]_vars
----------------------------------------------------------------------------
(* d3Hyperbolic, src/hyperbolic_functions.js: a renderer after               *)
(* renderCanvas(element) and setGraph(graph), with the constructor's         *)
(* projection 'hyperbolic' and layout not 'force'.                           *)

\* renderCanvas: the default margin on each side.
Margin == 10

\* Client sizes of the svg element; 20 leaves a canvas of width 0.
ElementSizes == {20, 30, 40, 60}

Pos(x, y) == Pt(R(x), R(y))
\* Layouts (node positions) and the edges between the nodes, by index.
Layouts ==
  { <<Pos(50, 70)>>, <<Pos(0, 0)>>,
    <<Pos(0, 0), Pos(600, 0)>>,
    <<Pos(10, 0), Pos(370, 480)>>,
    <<Pos(600, 300), Pos(0, 300), Pos(300, 600), Pos(300, 0)>> }
EdgesOf(n) ==
  IF n = 1 THEN <<>>
  ELSE IF n = 2 THEN <<[source |-> 1, target |-> 2, arc |-> Null]>>
  ELSE <<[source |-> 1, target |-> 2, arc |-> Null],
         [source |-> 1, target |-> 3, arc |-> Null],
         [source |-> 4, target |-> 2, arc |-> Null]>>
GraphOf(layout) ==
  [nodes |-> [i \in 1..Len(layout) |-> NewNode(i, layout[i].x, layout[i].y)],
   edges |-> EdgesOf(Len(layout))]

RECURSIVE SumX(_, _)
SumX(ns, i) == IF i = 0 THEN R(0) ELSE RAdd(ns[i].x, SumX(ns, i - 1))
RECURSIVE SumY(_, _)
SumY(ns, i) == IF i = 0 THEN R(0) ELSE RAdd(ns[i].y, SumY(ns, i - 1))
\* d3.mean(vertices, d => d.x) and d3.mean(vertices, d => d.y)
MeanXY(ns) == Pt(RDiv(SumX(ns, Len(ns)), R(Len(ns))),
                 RDiv(SumY(ns, Len(ns)), R(Len(ns))))

CanvasDisk(element) ==
  render_poindisk(element.clientWidth - Margin - Margin,
                  element.clientHeight - Margin - Margin)

\* The loops of start_drawing and of the zoom handler: project every node,
\* then compute the arc of every edge from the projected centers.
ProjectNodes(ns, c, disk) ==
  [i \in 1..Len(ns) |-> to_poincare(ns[i], c.x, c.y, disk)]
ArcEdges(es, ns, disk) ==
  [i \in 1..Len(es) |->
     [es[i] EXCEPT !.arc = poincare_geodesic(ns[es[i].source].center,
                                             ns[es[i].target].center, disk)]]

AllProjectExactly(ns, c, disk) ==
  \A i \in 1..Len(ns) : ProjectsExactly(ns[i], c.x, c.y, disk)

InitRender ==
  /\ NoKernel /\ NoPage
  /\ renderDisk = Null /\ renderCenter = Null
  /\ \E w \in ElementSizes, h \in ElementSizes, layout \in Layouts :
       /\ selectedElement = [clientWidth |-> w, clientHeight |-> h]
       /\ graph = GraphOf(layout)
       /\ AllProjectExactly(graph.nodes, MeanXY(graph.nodes),
                            CanvasDisk(selectedElement))

\* render(): build the disk of the canvas and run start_drawing.
Render ==
  /\ renderDisk = Null
  /\ \E disk \in {CanvasDisk(selectedElement)}, c \in {MeanXY(graph.nodes)} :
       \E ns \in {ProjectNodes(graph.nodes, c, disk)} :
         /\ renderDisk' = disk
         /\ renderCenter' = c
         /\ graph' = [nodes |-> ns, edges |-> ArcEdges(graph.edges, ns, disk)]
  /\ UNCHANGED <<selectedElement, kernelVars, pageVars>>

\* The transforms d3.zoom hands to the handler: the identity, a scaling, pans.
ZoomIdentity == [k |-> R(1), x |-> R(0), y |-> R(0)]
Transforms ==
  {ZoomIdentity, [k |-> R(2), x |-> R(-5), y |-> R(0)]}
  \cup {[k |-> R(1), x |-> R(x), y |-> R(y)] :
          x \in {-240, 0, 180, 300}, y \in {-300, 0, 180, 240}}

Shifted(ns, t) ==
  [i \in 1..Len(ns) |->
     [ns[i] EXCEPT !.tmp = Pt(ns[i].x, ns[i].y),
                   !.x = RAdd(ns[i].x, t.x),
                   !.y = RAdd(ns[i].y, t.y)]]
\* The restore loop with the assignment of y left out.
Restored_x(ns) ==
  [i \in 1..Len(ns) |-> [ns[i] EXCEPT !.x = ns[i].tmp.x]]
Restored(ns) ==
  [i \in 1..Len(ns) |-> [ns[i] EXCEPT !.x = ns[i].tmp.x, !.y = ns[i].tmp.y]]

\* The 'zoom' handler registered by start_drawing.
Zoom ==
  /\ renderDisk # Null
  /\ \E t \in Transforms :
       \E moved \in {Shifted(graph.nodes, t)} :
         /\ AllProjectExactly(moved, renderCenter, renderDisk)
         /\ IF t = ZoomIdentity \/ t.k # R(1)
            THEN UNCHANGED graph
            ELSE \E ns \in {ProjectNodes(moved, renderCenter, renderDisk)} :
                   graph' = [nodes |-> Restored(ns),
                             edges |-> ArcEdges(graph.edges, ns, renderDisk)]
  /\ UNCHANGED <<selectedElement, renderDisk, renderCenter, kernelVars,
                 pageVars>>

NextRender == Render \/ Zoom

SpecRender == InitRender /\ [][NextRender]_vars

----------------------------------------------------------------------------
(* The point-and-click page, src/main.js.  The hyperbolic radius the slider  *)
(* gives (value * 0.001) is held like every hyperbolic length, as            *)
(* tanh(radius / 2).                                                          *)

MaxNodes == 1
MaxLines == 1

\* Client rectangles of the svg element '#render'.
PageRects == {ClientRect(0, 0, 8, 8), ClientRect(1, 0, 8, 4)}
DrawSelections == {"circle", "line"}
SliderRadii == {Q(1, 10), Q(1, 40)}
\* Pointer positions, as offsets from the svg's left-top corner.
ClickOffsets == {<<3, 2>>, <<7, 0>>, <<4, 7>>}

\* The events the view circle (cx, cy, r of the disk, in the svg's frame)
\* receives: pointer positions on the circle and inside the svg's rectangle.
ViewEvents(disk) ==
  { e \in { Pt(RAdd(disk.boundbox.left, R(o[1])),
               RAdd(disk.boundbox.top, R(o[2]))) : o \in ClickOffsets } :
      /\ RLe(e.x, disk.boundbox.right) /\ RLe(e.y, disk.boundbox.bottom)
      /\ RLe(euclid_dist2(InSvg(e, disk), Pt(disk.cx, disk.cy)), RSq(disk.r)) }

get_radius == radius

InitPage ==
  /\ NoKernel /\ NoRender
  /\ \E rect \in PageRects : poindisk = page_poindisk(rect)
  /\ nodes = <<>> /\ vertices = <<>> /\ lines = <<>>
  /\ can_draw_line = FALSE
  /\ draw_select \in DrawSelections
  /\ radius \in SliderRadii

\* The user picks an option of the 'draw-select' element.
SelectDraw ==
  /\ \E v \in DrawSelections : draw_select' = v
  /\ UNCHANGED <<poindisk, nodes, vertices, lines, can_draw_line, radius,
                 kernelVars, renderVars>>

\* The user moves the 'radius' slider (slider.oninput rewrites the label only).
SlideRadius ==
  /\ \E v \in SliderRadii : radius' = v
  /\ UNCHANGED <<poindisk, nodes, vertices, lines, can_draw_line, draw_select,
                 kernelVars, renderVars>>

\* The second click of a line that leaves the first endpoint in vertices.
onclick_keep ==
  \E e \in ViewEvents(poindisk) :
    /\ IF draw_select = "circle"
       THEN /\ Len(nodes) < MaxNodes
            /\ \E dc \in {canvas_to_disk(e, poindisk)} :
                 /\ HasRoot(Hypot2(dc.x, dc.y))
                 /\ nodes' = Append(nodes,
                                    poincare_circle(dc, get_radius, poindisk))
            /\ UNCHANGED <<vertices, lines, can_draw_line>>
       ELSE IF draw_select = "line" /\ can_draw_line = FALSE
       THEN /\ vertices' = vertices \o <<e, poindisk>>
            /\ can_draw_line' = TRUE
            /\ UNCHANGED <<nodes, lines>>
       ELSE IF can_draw_line = TRUE
       THEN /\ Len(lines) < MaxLines
            /\ lines' = Append(lines,
                               poincare_geodesic(vertices[1], e, poindisk))
            /\ vertices' = vertices
            /\ can_draw_line' = FALSE
            /\ UNCHANGED nodes
       ELSE UNCHANGED <<nodes, vertices, lines, can_draw_line>>
    /\ UNCHANGED <<poindisk, draw_select, radius, kernelVars, renderVars>>

onclick ==
  \E e \in ViewEvents(poindisk) :
    /\ IF draw_select = "circle"
       THEN /\ Len(nodes) < MaxNodes
            /\ \E dc \in {canvas_to_disk(e, poindisk)} :
                 /\ HasRoot(Hypot2(dc.x, dc.y))
                 /\ nodes' = Append(nodes,
                                    poincare_circle(dc, get_radius, poindisk))
            /\ UNCHANGED <<vertices, lines, can_draw_line>>
       ELSE IF draw_select = "line" /\ can_draw_line = FALSE
       THEN /\ vertices' = vertices \o <<e, poindisk>>
            /\ can_draw_line' = TRUE
            /\ UNCHANGED <<nodes, lines>>
       ELSE IF can_draw_line = TRUE
       THEN /\ Len(lines) < MaxLines
            /\ lines' = Append(lines,
                               poincare_geodesic(vertices[1], e, poindisk))
            /\ vertices' = <<>>
            /\ can_draw_line' = FALSE
            /\ UNCHANGED nodes
       ELSE UNCHANGED <<nodes, vertices, lines, can_draw_line>>
    /\ UNCHANGED <<poindisk, draw_select, radius, kernelVars, renderVars>>

\* The preview line pushed and never popped.
onmove_nopop ==
  \E e \in ViewEvents(poindisk) :
    /\ IF can_draw_line /\ Len(vertices) >= 1
       THEN lines' = Append(lines,
                            poincare_geodesic(vertices[1], e, poindisk))
       ELSE UNCHANGED lines
    /\ UNCHANGED <<poindisk, nodes, vertices, can_draw_line, draw_select,
                   radius, kernelVars, renderVars>>

\* The preview line is pushed, drawn and popped again.
onmove ==
  \E e \in ViewEvents(poindisk) :
    /\ IF can_draw_line /\ Len(vertices) >= 1
       THEN \E pushed \in {Append(lines,
                             poincare_geodesic(vertices[1], e, poindisk))} :
              lines' = SubSeq(pushed, 1, Len(pushed) - 1)
       ELSE UNCHANGED lines
    /\ UNCHANGED <<poindisk, nodes, vertices, can_draw_line, draw_select,
                   radius, kernelVars, renderVars>>

NextPage == onclick \/ onmove \/ SelectDraw \/ SlideRadius

SpecPage == InitPage /\ [][NextPage]_vars

----------------------------------------------------------------------------
(* Properties of the kernel calls *)

Returned(fn) == kin.fn = fn /\ kout # Null

\* The disk's center as the kernel's functions read it.
DiskCenter(d) == Pt(d.cx, d.cy)
\* p in the frame of the bounding box, as poincare_geodesic shifts it.
InBox(p, d) == Pt(RSub(p.x, d.boundbox.left), RSub(p.y, d.boundbox.top))
Cross(o, a, b) ==
  RSub(RMul(RSub(a.x, o.x), RSub(b.y, o.y)),
       RMul(RSub(a.y, o.y), RSub(b.x, o.x)))
\* p, q (canvas points) and the disk center lie on one line.
CollinearWithCenter(p, q, d) ==
  Cross(DiskCenter(d), InBox(p, d), InBox(q, d)) = R(0)
StrictlyInside(p, d) ==
  RLt(euclid_dist2(InBox(p, d), DiskCenter(d)), RSq(d.r))
ArcFinite(arc) ==
  /\ PtFinite(arc.p1) /\ PtFinite(arc.p2) /\ PtFinite(arc.c)
  /\ PtFinite(arc.startAngle) /\ PtFinite(arc.endAngle)
  /\ IsFinite(arc.rSq)
\* A bounding box of positive size with r = min(half-width, half-height).
ValidDisk(d) ==
  /\ RGt(BoxWidth(d), R(0)) /\ RGt(BoxHeight(d), R(0))
  /\ d.r = RMin(RDiv(BoxWidth(d), R(2)), RDiv(BoxHeight(d), R(2)))
  /\ d.cx = RDiv(BoxWidth(d), R(2)) /\ d.cy = RDiv(BoxHeight(d), R(2))

\* C1: for p and q collinear with the disk center, poincare_geodesic returns
\* no NaN or Infinity field and describes the segment from p to q.
C1_CollinearGeodesicFinite ==
  (/\ Returned("poincare_geodesic")
   /\ kin.p # kin.q
   /\ StrictlyInside(kin.p, kin.disk) /\ StrictlyInside(kin.q, kin.disk)
   /\ CollinearWithCenter(kin.p, kin.q, kin.disk))
    => /\ ArcFinite(kout)
       /\ kout.p1 = InBox(kin.p, kin.disk)
       /\ kout.p2 = InBox(kin.q, kin.disk)

\* C2: for every valid disk and every canvas point p,
\* disk_to_canvas(canvas_to_disk(p, disk), disk) = p.
C2_RoundTrip ==
  (Returned("round_trip") /\ ValidDisk(kin.disk)) => kout = kin.p

\* The case of C3 and C4: two distinct points strictly inside the disk, not
\* collinear with its center.
ProperPair ==
  /\ Returned("poincare_geodesic")
  /\ kin.p # kin.q
  /\ StrictlyInside(kin.p, kin.disk) /\ StrictlyInside(kin.q, kin.disk)
  /\ ~CollinearWithCenter(kin.p, kin.q, kin.disk)

\* C3: the center of a non-degenerate geodesic is at distance r from both
\* endpoints (on squared distances).
C3_ArcContainment ==
  ProperPair =>
    /\ ArcFinite(kout)
    /\ euclid_dist2(kout.p1, kout.c) = kout.rSq
    /\ euclid_dist2(kout.p2, kout.c) = kout.rSq

\* Whether euclid_line(p, pp) of p's radial line takes the normalized branch.
RadialNormalized(p, d) ==
  LET b == RSub(circle_inversion(InBox(p, d), d).x, InBox(p, d).x)
  IN  RGt(RAbs(b), Q(1, 1000))

\* C3 witness: a proper pair whose two radial lines take different branches of
\* euclid_line's threshold.
C3_Witness ==
  /\ ProperPair
  /\ ~RadialNormalized(kin.p, kin.disk)
  /\ RadialNormalized(kin.q, kin.disk)

\* C4: poincare_geodesic(p, q) and poincare_geodesic(q, p) have the same
\* center and radius; p1/p2 and startAngle/endAngle are exchanged.
C4_GeodesicSymmetry ==
  ProperPair =>
    LET rev == poincare_geodesic(kin.q, kin.p, kin.disk)
    IN  /\ rev.c = kout.c /\ rev.rSq = kout.rSq
        /\ rev.p1 = kout.p2 /\ rev.p2 = kout.p1
        /\ rev.startAngle = kout.endAngle /\ rev.endAngle = kout.startAngle

\* C4 witness: a proper pair whose arc has distinct start and end angles.
C4_Witness ==
  /\ ProperPair
  /\ PtFinite(kout.c)
  /\ ~SameAngle(kout.startAngle, kout.endAngle)

\* The case of C5: a circle of positive radius and a point off its center.
OffCenter ==
  /\ Returned("circle_inversion")
  /\ RGt(kin.disk.r, R(0))
  /\ kin.p # DiskCenter(kin.disk)

\* C5: circle_inversion is an involution, and the inverted point lies on the
\* ray from the center through p at distance r^2 / |p - center|.
C5_InversionInvolution ==
  OffCenter =>
    LET c == DiskCenter(kin.disk)
    IN  /\ kout.twice = kin.p
        /\ Cross(c, kin.p, kout.once) = R(0)
        /\ RGt(RAdd(RMul(RSub(kin.p.x, c.x), RSub(kout.once.x, c.x)),
                    RMul(RSub(kin.p.y, c.y), RSub(kout.once.y, c.y))), R(0))
        /\ RMul(euclid_dist2(kout.once, c), euclid_dist2(kin.p, c))
             = RSq(RSq(kin.disk.r))

\* C5 witness: a point neither at the center nor on the circle, so that the
\* inversion moves it.
C5_Witness ==
  /\ OffCenter
  /\ kout.once # kin.p
C7_ProjectedAroundDiskCenter ==
  (Returned("to_poincare") /\ ValidDisk(kin.disk)) =>
    LET d == kin.disk
        pol == to_poincare_polar(kin.ePosition, kin.centerX, kin.centerY)
        c == kout.node.center
    IN  /\ c.x = RAdd(d.cx, RMul(d.r, RMul(pol.poincareR, Sin(pol.theta))))
        /\ c.y = RAdd(d.cy, RMul(d.r, RMul(pol.poincareR, Cos(pol.theta))))
        /\ (kin.ePosition.x = kin.centerX /\ kin.ePosition.y = kin.centerY)
             => c = DiskCenter(d)
        /\ RLe(euclid_dist2(c, DiskCenter(d)), RSq(d.r))

----------------------------------------------------------------------------
(* Properties of the renderer and of the page *)

DiskRadiusOk(d) ==
  /\ d.r = RMin(RDiv(BoxWidth(d), R(2)), RDiv(BoxHeight(d), R(2)))
  /\ RGt(d.r, R(0))

\* C8: every disk descriptor built, by d3Hyperbolic.render and by the page,
\* has r = min((right-left)/2, (bottom-top)/2) and r > 0.
C8_DiskRadiusInvariant ==
  /\ renderDisk # Null => DiskRadiusOk(renderDisk)
  /\ poindisk # Null => DiskRadiusOk(poindisk)

\* C9: with a disk of non-positive radius or a bounding box of zero width or
\* height the render pass is rejected: no node is projected and no arc is
\* computed.
C9_InvalidDiskRejected ==
  LET d == CanvasDisk(selectedElement)
  IN  (\/ ~RGt(d.r, R(0))
       \/ BoxWidth(d) = R(0)
       \/ BoxHeight(d) = R(0)) =>
        /\ renderDisk = Null
        /\ \A i \in 1..Len(graph.nodes) :
             graph.nodes[i].center = Null /\ graph.nodes[i].circle = Null
        /\ \A i \in 1..Len(graph.edges) : graph.edges[i].arc = Null

\* C10: every circle the page constructs with poincare_circle, also from a
\* click whose disk-relative position is at or beyond the unit circle, has
\* finite cx, cy and r.
C10_CircleFinite ==
  \A i \in 1..Len(nodes) :
    IsFinite(nodes[i].cx) /\ IsFinite(nodes[i].cy) /\ IsFinite(nodes[i].r)

----------------------------------------------------------------------------
(* Further properties of the kernel calls *)

\* C11: to_poincare writes only center and circle into the node: x, y and id
\* (and every other field) are as before the call, and a second call on the
\* node, with the same reference center and disk, yields the same center and
\* circle.
C11_WritesOnlyDerivedFields ==
  Returned("to_poincare") =>
    LET again == to_poincare(kout.node, kin.centerX, kin.centerY, kin.disk)
    IN  /\ kout.node.x = kin.ePosition.x
        /\ kout.node.y = kin.ePosition.y
        /\ kout.node.id = kin.ePosition.id
        /\ kout.node = [kin.ePosition EXCEPT !.center = kout.node.center,
                                             !.circle = kout.node.circle]
        /\ again.center = kout.node.center
        /\ again.circle = kout.node.circle
        /\ again.x = kin.ePosition.x /\ again.y = kin.ePosition.y

\* C11 witness: a node off the reference center whose center and circle were
\* unset before the call and are set by it.
C11_Witness ==
  /\ Returned("to_poincare")
  /\ kin.ePosition.x # kin.centerX
  /\ kin.ePosition.center = Null /\ kin.ePosition.circle = Null
  /\ kout.node.center # Null /\ kout.node.circle # Null
  /\ kout.node.center # DiskCenter(kin.disk)

\* The left-hand side a*x + b*y - c of the standard form, at the point v.
StandardForm(line, v) ==
  RSub(RAdd(RMul(line.a, v.x), RMul(line.b, v.y)), line.c)

\* C12: for distinct p and q the line euclid_line returns is in the form
\* a*x + b*y - c = 0: p and q both satisfy it, in either branch of the
\* normalization.
C12_StandardForm ==
  (Returned("euclid_line") /\ kin.p # kin.q) =>
    /\ StandardForm(kout, kin.p) = R(0)
    /\ StandardForm(kout, kin.q) = R(0)

\* The angle travelled from the path's start to its end in the direction of
\* decreasing angle around c is at most pi: the start is not clockwise of
\* the end.
MinorSide(path, c) == RGe(Cross(c, path.end, path.start), R(0))

\* C13: with lo and hi the smaller and the larger of the arc's two angles,
\* arc_path starts at hi and ends at lo when hi - lo < pi, starts at lo and
\* ends at hi when hi - lo >= pi, and with large-arc flag 0 and sweep flag 0
\* the angle travelled from start to end is at most pi.
C13_ArcPathMinorSide ==
  Returned("arc_path") =>
    LET arc == kin.arc
        lo == AngleMin(arc.startAngle, arc.endAngle)
        hi == AngleMax(arc.startAngle, arc.endAngle)
        atLo == polar_to_cart(RSqrt(arc.rSq), lo, arc.c)
        atHi == polar_to_cart(RSqrt(arc.rSq), hi, arc.c)
    IN  /\ SpanAtLeastPi(lo, hi) => kout.start = atLo /\ kout.end = atHi
        /\ ~SpanAtLeastPi(lo, hi) => kout.start = atHi /\ kout.end = atLo
        /\ kout.largeArc = 0 /\ kout.sweep = 0
        /\ MinorSide(kout, arc.c)

\* C13 witness: two angles more than pi apart, so that the path starts at
\* the smaller one.
C13_Witness ==
  /\ Returned("arc_path")
  /\ SpanAtLeastPi(AngleMin(kin.arc.startAngle, kin.arc.endAngle),
                   AngleMax(kin.arc.startAngle, kin.arc.endAngle))
  /\ RGt(Cross(kin.arc.c, kout.end, kout.start), R(0))
  /\ SameAngle(Pt(RSub(kout.start.x, kin.arc.c.x),
                  RSub(kout.start.y, kin.arc.c.y)),
               AngleMin(kin.arc.startAngle, kin.arc.endAngle))

----------------------------------------------------------------------------
(* Further properties of the renderer and of the page *)

\* C14: no zoom event (identity, scaling or pan) changes a vertex's layout
\* coordinates x and y: after every event they are what they were before it,
\* hence what they were before the first event.
C14_ZoomRestoresLayout ==
  [][renderDisk # Null =>
       /\ Len(graph'.nodes) = Len(graph.nodes)
       /\ \A i \in 1..Len(graph.nodes) :
            /\ graph'.nodes[i].x = graph.nodes[i].x
            /\ graph'.nodes[i].y = graph.nodes[i].y]_vars

\* C14 witness: a pan has run: a vertex carries the backup the handler
\* wrote, its coordinates equal the backup, and it was re-projected off the
\* position of the reference center.
C14_Witness ==
  /\ renderDisk # Null
  /\ \E i \in 1..Len(graph.nodes) :
       /\ graph.nodes[i].tmp # Null
       /\ graph.nodes[i].tmp = Pt(graph.nodes[i].x, graph.nodes[i].y)
       /\ graph.nodes[i].x = renderCenter.x /\ graph.nodes[i].y = renderCenter.y
       /\ graph.nodes[i].center # Pt(renderDisk.r, renderDisk.r)

\* C15: on the page, after any clicks and moves with any draw-select value,
\* can_draw_line is true exactly when vertices is non-empty.
C15_PendingIffVertices ==
  poindisk # Null => (can_draw_line = TRUE <=> vertices # <<>>)

\* C15 witness: a first endpoint is pending while the selection was turned
\* to circles and a circle was drawn.
C15_Witness ==
  /\ can_draw_line = TRUE /\ vertices # <<>>
  /\ draw_select = "circle" /\ Len(nodes) > 0

\* C16: lines changes only in a click taken while can_draw_line is true and
\* draw-select is not 'circle'; that click appends exactly one geodesic, from
\* the stored first vertex to the click point, and clears the pending state.
\* Moves and all other clicks leave lines as it is.
C16_LinesChangeOnSecondClick ==
  [][lines' # lines =>
       /\ can_draw_line = TRUE /\ draw_select # "circle"
       /\ \E e \in ViewEvents(poindisk) :
            lines' = Append(lines,
                            poincare_geodesic(vertices[1], e, poindisk))
       /\ vertices' = <<>> /\ can_draw_line' = FALSE]_vars

\* C16 witness: a line was committed, a proper arc, and nothing is pending.
C16_Witness ==
  /\ Len(lines) = 1 /\ ArcFinite(lines[1])
  /\ vertices = <<>> /\ can_draw_line = FALSE

====
